---- MODULE Spec2Model ----
(***************************************************************************)
(* Model of the batch overlay scripts of the repository:                   *)
(*   src/youtube/processing/thumbnail_adder.py                             *)
(*   src/youtube/processing/watermark_adder.py                             *)
(* and of the upload loop of src/youtube/upload/scheduler.py.              *)
(*                                                                         *)
(* File names are sequences of tokens (<<"a", ".mp4">> is "a.mp4"), so     *)
(* that os.path.splitext and the f-string patterns are computed, and a     *)
(* path is a pair <<directory, file name>> (os.path.join).  Times are in   *)
(* tenths of a second (THUMBNAIL_DURATION = 0.1 s is 1, the 5 s window     *)
(* is 50).                                                                 *)
(***************************************************************************)
EXTENDS Integers, Sequences, FiniteSets, TLC

VARIABLES
    script,         \* which script runs: "thumbnail" or "watermark"
    cpu_count,      \* multiprocessing.cpu_count()
    listing,        \* os.listdir(INPUT_DIR), empty when INPUT_DIR is missing
    fs,             \* existing paths other than the entries of INPUT_DIR;
                    \* <<INPUT_DIR, <<>>>> is the directory INPUT_DIR itself
    pc,             \* position of the main thread in process_directory
    inputs,         \* what the operator typed at the prompts of process_directory
    video_tasks,    \* list of task tuples built by process_directory
    log,            \* records logged by the main thread (logging.* calls)
    futures,        \* per submitted task: state of its Future
    success_count,  \* process_directory local
    failed_files,   \* process_directory local
    fault_budget,   \* failures the environment may still inflict on tasks
    args,           \* arguments of the function under test (function specs)
    ret,            \* its return value, "pending" before the call
    THREAD_LOCK,    \* threading.Lock(): the thread that holds it, or Unlocked
    threads,        \* per thread: where it is with respect to the logging
                    \* calls, and how many log calls it still makes
    now,            \* datetime.now(), in minutes
    upload          \* scheduler.main: locals of the iteration of its loop

\* the lock of thread_safe_log and the threads that log
logVars == <<THREAD_LOCK, threads>>

\* the clock and the upload loop of scheduler.py
uploadVars == <<now, upload>>

vars == <<script, cpu_count, listing, fs, pc, inputs, video_tasks, log, futures,
          success_count, failed_files, fault_budget, args, ret, logVars, uploadVars>>

\* what a call of a single function leaves alone
frameVars == <<script, cpu_count, listing, inputs, video_tasks, log, futures,
               success_count, failed_files, fault_budget, logVars, uploadVars>>

\* what a step of the logging threads leaves alone
batchVars == <<script, cpu_count, listing, fs, pc, inputs, video_tasks, log,
               futures, success_count, failed_files, fault_budget, args, ret, uploadVars>>

----------------------------------------------------------------------------
(* Bounds of the model *)

MaxDirs == 2            \* longest list of candidate directories tried
MaxFiles == 3           \* most entries in INPUT_DIR (full batch)
MaxDuration == 52       \* longest source video, in tenths of a second
MaxOverlay == 3         \* longest thumbnail duration / fade duration tried
MaxBadClose == 1        \* most clips whose close() raises in one invocation
MaxCpu == 2             \* most CPUs of the machine (full batch)
MaxThumbs == 3          \* most thumbnail files outside INPUT_DIR (full batch)
MaxPoolCpu == 5         \* most CPUs of the machine (watermark batch alone)
MaxPoolVideos == 5      \* most videos in INPUT_DIR (watermark batch alone)
MaxFaults == 2          \* most tasks the environment makes fail (full batch)
MaxEnumFiles == 3       \* most entries in INPUT_DIR (enumeration alone)
MaxLogWorkers == 2      \* most worker threads that log (logging alone)
MaxLogCalls == 2        \* most thread_safe_log calls made by one thread
MaxPoolFaults == 1      \* most tasks it makes fail (watermark batch alone)

\* minutes the clock may advance during the upload loop
MaxClock == 3

\* videos found by scheduler.main
MaxUploads == 2

----------------------------------------------------------------------------
(* Paths and file names *)

INPUT_DIR == "INPUT_DIR"
OUTPUT_DIR == "OUTPUT_DIR"
THUMBNAIL_DIR == "THUMBNAIL_DIR"
USER_DIR == "USER_DIR"

ExtTokens == {".mp4", ".MOV", ".mkv", ".m4v", ".avi", ".mov", ".png", ".txt"}

\* Python's None
NoneValue == <<>>

\* the thread that runs process_directory; the workers are 1, 2, ...
MainThread == 0

\* THREAD_LOCK = threading.Lock(): created unlocked
Unlocked == -1

Range(s) == {s[i] : i \in DOMAIN s}

Min(a, b) == IF a <= b THEN a ELSE b

Max(a, b) == IF a >= b THEN a ELSE b

SeqsNoDup(S, n) ==
    {s \in UNION {[1..k -> S] : k \in 0..n} :
        \A i, j \in DOMAIN s : i # j => s[i] # s[j]}

join(dir, file) == <<dir, file>>

basename(path) == path[2]

\* os.path.splitext: (root, ext); ext is empty unless the name ends with an
\* extension that is not the whole name
splitext(file) ==
    IF Len(file) >= 2 /\ file[Len(file)] \in ExtTokens
    THEN <<SubSeq(file, 1, Len(file) - 1), <<file[Len(file)]>>>>
    ELSE <<file, <<>>>>

\* os.path.exists at enumeration time
exists(path) ==
    \/ path \in fs
    \/ /\ path[1] = INPUT_DIR
       /\ path[2] \in Range(listing)

----------------------------------------------------------------------------
(* find_matching_thumbnail *)

patterns(video_name) ==
    << video_name \o <<"_thumb", ".png">>,
       video_name \o <<"_thumbnail", ".png">>,
       video_name \o <<".png">>,
       <<"thumb_">> \o video_name \o <<".png">> >>

\* all (pattern index, directory index) pairs whose path exists
Hits(video_name, thumbnail_patterns) ==
    {h \in (1..4) \X (1..Len(thumbnail_patterns)) :
        exists(join(thumbnail_patterns[h[2]], patterns(video_name)[h[1]]))}

\* the loop order mutated: directories outside, patterns inside
DirFirst(h, g) == h[2] < g[2] \/ (h[2] = g[2] /\ h[1] <= g[1])

\* loop order of the code: patterns outside, directories inside
LoopBefore(h, g) == h[1] < g[1] \/ (h[1] = g[1] /\ h[2] <= g[2])

\* a loop that does not stop at the first hit: the last hit wins
LastHit(H) == CHOOSE h \in H : \A g \in H : LoopBefore(g, h)

FirstHit(H) == CHOOSE h \in H : \A g \in H : LoopBefore(h, g)

find_matching_thumbnail(video_file, thumbnail_patterns) ==
    LET video_name == splitext(basename(video_file))[1]
        H == Hits(video_name, thumbnail_patterns)
    IN  IF H = {} THEN NoneValue
        ELSE LET h == FirstHit(H)
             IN  join(thumbnail_patterns[h[2]], patterns(video_name)[h[1]])

----------------------------------------------------------------------------
(* The overlay operations.  The video library is the environment: env says *)
(* how long the source is, which asset paths exist when the operation      *)
(* runs, at which library call (if any) an exception is raised, and which  *)
(* clips raise from close().                                               *)

THUMBNAIL_DURATION == 1         \* 0.1 s
THUMBNAIL_FADE_DURATION == 1    \* 0.1 s
LAST_WINDOW == 50               \* the literal 5 (seconds) of add_watermark_to_video

WATERMARK_PATH == join("WATERMARK_DIR", <<"logo", ".png">>)
WATERMARK_PATH_LAST_5SEC == join("WATERMARK_DIR", <<"subscribe", ".png">>)
WATERMARK_X == 515
WATERMARK_Y == 330
WATERMARK_X_LAST_5SEC == 235
WATERMARK_Y_LAST_5SEC == 960

ThumbSteps == <<"open", "image", "resize", "start", "composite", "write">>
ThumbClips == <<"video", "thumbnail", "final_video">>

WaterSteps == <<"open", "image_main", "image_last", "composite", "write">>
WaterClips == <<"video", "watermark_main", "watermark_last", "final_video">>

StepIndex(steps, s) == CHOOSE i \in DOMAIN steps : steps[i] = s

\* the library call s returned normally (given that it was reached)
Passed(steps, env, s) ==
    env.raise_at = "none" \/ StepIndex(steps, env.raise_at) > StepIndex(steps, s)

Count(seq, r) == Cardinality({i \in DOMAIN seq : seq[i] = r})

\* close() called on the clips in order, stopping at the first call that raises
CallsUntilRaise(order, bad) ==
    IF \E i \in DOMAIN order : order[i] \in bad
    THEN SubSeq(order, 1, CHOOSE i \in DOMAIN order :
                              /\ order[i] \in bad
                              /\ \A j \in 1..(i - 1) : order[j] \notin bad)
    ELSE order

\* close() called on every clip in order, each call in its own try
CallsEach(order, bad) == order

\* thumbnail_adder.py, "Clean up on error": one try around all three closes
ThumbnailCleanupOnError(bound_clips, bad) == CallsUntilRaise(bound_clips, bad)

\* watermark_adder.py, "Clean up on error": one try per close
WatermarkCleanupOnError(bound_clips, bad) == CallsEach(bound_clips, bad)

\* what one invocation did, given the close() calls it made
OverlayResult(ok, failure, clips, opened, calls, bad, writes, overlays, source_duration, fade, branch) ==
    [ok |-> ok,
     failure |-> failure,
     opened |-> opened,
     close_calls |-> [r \in Range(clips) |-> Count(calls, r)],
     closed |-> [r \in Range(clips) |-> IF r \in bad THEN 0 ELSE Count(calls, r)],
     writes |-> writes,
     overlays |-> overlays,
     source_duration |-> source_duration,
     composite_end |->
        IF "final_video" \notin opened THEN 0
        ELSE CHOOSE m \in {source_duration}
                    \cup {overlays[i].start + overlays[i].duration : i \in DOMAIN overlays} :
                 /\ m >= source_duration
                 /\ \A i \in DOMAIN overlays : m >= overlays[i].start + overlays[i].duration,
     fade |-> fade,
     branch |-> branch]

\* the result written over the source
WriteInPlace(input_path, output_path) == input_path

\* final_video.write_videofile(output_path, ...)
WriteTarget(input_path, output_path) == output_path

\* thumbnail.with_start(video_duration) mutated: the overlay ends with the source
ThumbnailStartAtTail(video_duration, duration) == video_duration - duration

\* "Position thumbnail at the end of video": thumbnail.with_start(video_duration)
ThumbnailStart(video_duration, duration) == video_duration

\* the fade gate with the comparison relaxed to <=
FadeGateInclusive(duration, fade_duration) ==
    fade_duration > 0 /\ 2 * fade_duration <= duration

\* fade_duration > 0 and fade_duration < duration / 2
FadeGate(duration, fade_duration) ==
    fade_duration > 0 /\ 2 * fade_duration < duration

add_thumbnail_to_video(input_path, output_path, thumbnail_path, duration, fade_duration, env) ==
    LET P(s) == Passed(ThumbSteps, env, s)
        Bound(r) == \/ r = "video" /\ P("open")
                    \/ r = "thumbnail" /\ P("image")
                    \/ r = "final_video" /\ P("composite")
        locals == SelectSeq(ThumbClips, Bound)
        opened == {r \in Range(ThumbClips) : Bound(r)}
        bad == env.bad_close
        gate == FadeGate(duration, fade_duration)
        fade == IF ~gate THEN "not_attempted"
                ELSE IF env.fade_method = "missing" THEN "unavailable"
                ELSE IF env.fade_method = "raises" THEN "raised"
                ELSE "applied"
        overlay == [asset |-> thumbnail_path,
                    start |-> ThumbnailStart(env.video_duration, duration),
                    duration |-> duration,
                    position |-> "resized_to_video_size"]
        Res(ok, failure, op, calls, writes, overlays, fd) ==
            OverlayResult(ok, failure, ThumbClips, op, calls, bad, writes,
                          overlays, env.video_duration, fd,
                          IF overlays = <<>> THEN "none" ELSE "appended")
    IN  IF ~P("open")
        THEN Res(FALSE, "exception", {}, <<>>, {}, <<>>, "not_attempted")
        ELSE IF ~env.asset_exists
        THEN \* video.close(); return False  (a raising close lands in except)
             Res(FALSE, "asset_not_found", {"video"},
                 IF "video" \in bad
                 THEN <<"video">> \o ThumbnailCleanupOnError(<<"video">>, bad)
                 ELSE <<"video">>,
                 {}, <<>>, "not_attempted")
        ELSE IF env.raise_at # "none"
        THEN Res(FALSE, "exception", opened,
                 ThumbnailCleanupOnError(locals, bad),
                 IF env.raise_at = "write" THEN {WriteTarget(input_path, output_path)} ELSE {},
                 IF P("start") THEN <<overlay>> ELSE <<>>,
                 IF P("resize") THEN fade ELSE "not_attempted")
        ELSE IF Range(ThumbClips) \cap bad # {}
        THEN \* written, then a close() raised: the except clause runs too
             Res(FALSE, "exception", opened,
                 CallsUntilRaise(ThumbClips, bad)
                     \o ThumbnailCleanupOnError(ThumbClips, bad),
                 {WriteTarget(input_path, output_path)}, <<overlay>>, fade)
        ELSE Res(TRUE, "none", opened, ThumbClips, {WriteTarget(input_path, output_path)}, <<overlay>>, fade)

\* the branch test mutated to a strict comparison
ShortSourceStrict(duration) == duration < LAST_WINDOW

\* if duration <= 5
ShortSource(duration) == duration <= LAST_WINDOW

\* "# Check watermark files", main watermark missing: return False, no close
MainMissingCloses(bad) == <<>>

\* the second image loaded whether or not its file exists
Last5AsConfigured(last_exists, watermark_path_main, watermark_path_last5) == watermark_path_last5

\* "if not os.path.exists(watermark_path_last5): ... using main instead"
Last5OrMain(last_exists, watermark_path_main, watermark_path_last5) == IF last_exists THEN watermark_path_last5 ELSE watermark_path_main

add_watermark_to_video(input_path, output_path, watermark_path_main, watermark_path_last5, x_pos, y_pos, x_pos_last, y_pos_last, env) ==
    LET P(s) == Passed(WaterSteps, env, s)
        Bound(r) == \/ r = "video" /\ P("open")
                    \/ r = "watermark_main" /\ P("image_main")
                    \/ r = "watermark_last" /\ P("image_last")
                    \/ r = "final_video" /\ P("composite")
        locals == SelectSeq(WaterClips, Bound)
        opened == {r \in Range(WaterClips) : Bound(r)}
        bad == env.bad_close
        duration == env.video_duration
        last5 == Last5OrMain(env.last_exists, watermark_path_main,
                             watermark_path_last5)
        main == [asset |-> watermark_path_main, start |-> 0,
                 duration |-> duration, position |-> <<x_pos, y_pos>>]
        last == IF ShortSource(duration)
                THEN [asset |-> last5, start |-> 0, duration |-> duration,
                      position |-> <<x_pos_last, y_pos_last>>]
                ELSE [asset |-> last5, start |-> duration - LAST_WINDOW,
                      duration |-> LAST_WINDOW,
                      position |-> <<x_pos_last, y_pos_last>>]
        built == (IF P("image_main") THEN <<main>> ELSE <<>>)
                    \o (IF P("image_last") THEN <<last>> ELSE <<>>)
        Res(ok, failure, op, calls, writes, overlays) ==
            OverlayResult(ok, failure, WaterClips, op, calls, bad, writes,
                          overlays, duration, "not_attempted",
                          IF Len(overlays) < 2 THEN "none"
                          ELSE IF ShortSource(duration) THEN "full_length"
                          ELSE "trailing_window")
    IN  IF ~P("open")
        THEN Res(FALSE, "exception", {}, <<>>, {}, <<>>)
        ELSE IF ~env.asset_exists
        THEN Res(FALSE, "asset_not_found", {"video"}, MainMissingCloses(bad),
                 {}, <<>>)
        ELSE IF env.raise_at # "none"
        THEN Res(FALSE, "exception", opened,
                 WatermarkCleanupOnError(locals, bad),
                 IF env.raise_at = "write" THEN {WriteTarget(input_path, output_path)} ELSE {},
                 built)
        ELSE IF Range(WaterClips) \cap bad # {}
        THEN Res(FALSE, "exception", opened,
                 CallsUntilRaise(WaterClips, bad)
                     \o WatermarkCleanupOnError(WaterClips, bad),
                 {WriteTarget(input_path, output_path)}, built)
        ELSE Res(TRUE, "none", opened, WaterClips, {WriteTarget(input_path, output_path)}, built)

----------------------------------------------------------------------------
(* Environments of the overlay operations *)

BadCloseSets(clips) ==
    {S \in SUBSET Range(clips) : Cardinality(S) <= MaxBadClose}

\* source durations tried: the short ones and those around the 5 s window
Durations ==
    {d \in 1..MaxDuration : d <= MaxOverlay + 1 \/ d >= LAST_WINDOW - 2}

ThumbEnvs ==
    [video_duration : Durations,
     asset_exists : BOOLEAN,
     raise_at : Range(ThumbSteps) \cup {"none"},
     bad_close : BadCloseSets(ThumbClips),
     fade_method : {"present", "missing", "raises"}]

WaterEnvs ==
    [video_duration : Durations,
     asset_exists : BOOLEAN,
     last_exists : BOOLEAN,
     raise_at : Range(WaterSteps) \cup {"none"},
     bad_close : BadCloseSets(WaterClips)]

----------------------------------------------------------------------------
(* process_directory: enumeration of the tasks *)

supported_extensions == {".mp4", ".avi", ".mov", ".mkv", ".m4v"}

\* str.lower() on the tokens that have upper-case letters
Lower(tok) ==
    CASE tok = ".MOV" -> ".mov"
      [] tok = "Skip" -> "skip"
      [] OTHER -> tok

\* the filter without f.lower()
IsVideoCaseSensitive(f) == Len(f) >= 1 /\ f[Len(f)] \in supported_extensions

\* any(f.lower().endswith(ext) for ext in supported_extensions)
IsVideo(f) == Len(f) >= 1 /\ Lower(f[Len(f)]) \in supported_extensions

\* a path typed without a directory, such as the word skip
Typed(word) == join("", <<word>>)

\* thumbnail_file.lower() == 'skip'
IsSkip(answer) ==
    answer[1] = "" /\ Len(answer[2]) = 1 /\ Lower(answer[2][1]) = "skip"

\* a test of the directory that never fails
DirAlwaysExists(dir) == TRUE

\* os.path.exists of a directory
DirExists(dir) ==
    \/ dir \in {OUTPUT_DIR, THUMBNAIL_DIR, USER_DIR}
    \/ join(dir, <<>>) \in fs

Suffix == IF script = "watermark" THEN "_watermarked" ELSE "_with_thumbnail"

\* the output named without the extension of the input
OutputPathWithoutExt(filename) ==
    join(OUTPUT_DIR, splitext(filename)[1] \o <<Suffix>>)

\* os.path.join(OUTPUT_DIR, f"{name}{suffix}{ext}")
OutputPath(filename) ==
    join(OUTPUT_DIR,
         splitext(filename)[1] \o <<Suffix>> \o splitext(filename)[2])

\* nothing typed: the prompts were not reached
NoInputs ==
    [strategy |-> "", thumbnail_file |-> NoneValue, thumb_dir |-> "",
     answers |-> <<>>]

LogRecord(level, msg, item) == [level |-> level, msg |-> msg, item |-> item]

\* a miss that still yields a task (the mutated "if thumbnail_file:")
ResolveKeepingMiss(thumbnail_file) ==
    [kind |-> "task", thumb |-> thumbnail_file, msg |-> "none"]

\* "if thumbnail_file: ... else: logging.warning(...)" of strategies 2 and 3
ResolveByName(thumbnail_file) ==
    IF thumbnail_file # NoneValue
    THEN [kind |-> "task", thumb |-> thumbnail_file, msg |-> "none"]
    ELSE [kind |-> "warn", thumb |-> NoneValue, msg |-> "no_matching_thumbnail"]

\* strategy 4 with the answer compared to 'skip' as typed
ResolveManualCaseSensitive(answer) ==
    IF answer = Typed("skip")
    THEN [kind |-> "skip", thumb |-> NoneValue, msg |-> "none"]
    ELSE IF ~exists(answer)
    THEN [kind |-> "warn", thumb |-> NoneValue, msg |-> "thumbnail_not_found_skipping"]
    ELSE [kind |-> "task", thumb |-> answer, msg |-> "none"]

\* strategy 4: one answer per video
ResolveManual(answer) ==
    IF IsSkip(answer)
    THEN [kind |-> "skip", thumb |-> NoneValue, msg |-> "none"]
    ELSE IF ~exists(answer)
    THEN [kind |-> "warn", thumb |-> NoneValue, msg |-> "thumbnail_not_found_skipping"]
    ELSE [kind |-> "task", thumb |-> answer, msg |-> "none"]

\* what the body of the for loop decides for the i-th video
Resolutions(video_files, strategy, thumbnail_file, thumb_dir, answers) ==
    [i \in 1..Len(video_files) |->
        CASE strategy = "1" ->
                [kind |-> "task", thumb |-> thumbnail_file, msg |-> "none"]
          [] strategy = "2" ->
                ResolveByName(find_matching_thumbnail(
                    join(INPUT_DIR, video_files[i]), <<THUMBNAIL_DIR, INPUT_DIR>>))
          [] strategy = "3" ->
                ResolveByName(find_matching_thumbnail(
                    join(INPUT_DIR, video_files[i]), <<thumb_dir>>))
          [] OTHER -> ResolveManual(answers[i])]

\* the label numbered as enumerate(video_files) without its start=1
ThumbnailTaskFromZero(video_files, i, thumb) ==
    <<join(INPUT_DIR, video_files[i]), OutputPath(video_files[i]), thumb,
      <<i - 1, Len(video_files)>>>>

\* (input_path, output_path, thumbnail_file, progress_info), with
\* progress_info = f"{i}/{len(video_files)}"
ThumbnailTask(video_files, i, thumb) ==
    <<join(INPUT_DIR, video_files[i]), OutputPath(video_files[i]), thumb,
      <<i, Len(video_files)>>>>

WatermarkTask(video_files, i) ==
    <<join(INPUT_DIR, video_files[i]), OutputPath(video_files[i]),
      <<i, Len(video_files)>>>>

RECURSIVE BuildTasks(_, _, _)
BuildTasks(video_files, res, i) ==
    IF i > Len(video_files) THEN <<>>
    ELSE (IF res[i].kind = "task"
          THEN <<ThumbnailTask(video_files, i, res[i].thumb)>>
          ELSE <<>>) \o BuildTasks(video_files, res, i + 1)

RECURSIVE BuildLog(_, _, _)
BuildLog(video_files, res, i) ==
    IF i > Len(video_files) THEN <<>>
    ELSE (IF res[i].kind = "warn"
          THEN <<LogRecord("warning", res[i].msg, video_files[i])>>
          ELSE <<>>) \o BuildLog(video_files, res, i + 1)

\* the listing filtered by extension
VideoFiles == SelectSeq(listing, IsVideo)

\* thumbnail_adder.process_directory up to "# Process videos":
\* [tasks, log, returned]
EnumerateThumbnail(strategy, thumbnail_file, thumb_dir, answers) ==
    LET video_files == VideoFiles
        res == Resolutions(video_files, strategy, thumbnail_file, thumb_dir, answers)
        tasks == BuildTasks(video_files, res, 1)
        warned == BuildLog(video_files, res, 1)
        Stop(records) == [tasks |-> <<>>, log |-> records, returned |-> TRUE,
                          prompted |-> TRUE]
    IN  IF ~DirExists(INPUT_DIR)
        THEN [tasks |-> <<>>, returned |-> TRUE, prompted |-> FALSE,
              log |-> <<LogRecord("error", "input_directory_not_found", <<>>)>>]
        ELSE IF video_files = <<>>
        THEN [tasks |-> <<>>, returned |-> TRUE, prompted |-> FALSE,
              log |-> <<LogRecord("warning", "no_videos_found", <<>>)>>]
        ELSE IF strategy \notin {"1", "2", "3", "4"}
        THEN Stop(<<LogRecord("error", "invalid_strategy_choice", <<>>)>>)
        ELSE IF strategy = "1" /\ ~exists(thumbnail_file)
        THEN Stop(<<LogRecord("error", "thumbnail_file_not_found", <<>>)>>)
        ELSE IF strategy = "3" /\ ~DirExists(thumb_dir)
        THEN Stop(<<LogRecord("error", "thumbnail_directory_not_found", <<>>)>>)
        ELSE IF tasks = <<>>
        THEN Stop(warned \o <<LogRecord("warning", "no_valid_pairs", <<>>)>>)
        ELSE [tasks |-> tasks, log |-> warned, returned |-> FALSE,
              prompted |-> TRUE]

\* watermark_adder.process_directory up to "success_count = 0"
EnumerateWatermark ==
    LET video_files == VideoFiles
    IN  IF ~DirExists(INPUT_DIR)
        THEN [tasks |-> <<>>, returned |-> TRUE, prompted |-> FALSE,
              log |-> <<LogRecord("error", "input_directory_not_found", <<>>)>>]
        ELSE IF video_files = <<>>
        THEN [tasks |-> <<>>, returned |-> TRUE, prompted |-> FALSE,
              log |-> <<LogRecord("warning", "no_videos_found", <<>>)>>]
        ELSE [tasks |-> [i \in 1..Len(video_files) |-> WatermarkTask(video_files, i)],
              returned |-> FALSE, prompted |-> FALSE,
              log |-> <<LogRecord("info", "start", Len(video_files))>>]

----------------------------------------------------------------------------
(* process_directory: the worker pool and the collection loop *)

WORKER_CAP == 4

\* a pool that ignores the cap: max_workers = cpu_count
MaxWorkersUncapped(cpus) == cpus

\* MAX_WORKERS = min(multiprocessing.cpu_count(), 4)
MaxWorkersOf(cpus) == Min(cpus, WORKER_CAP)

MAX_WORKERS == MaxWorkersOf(cpu_count)

\* what a worker meets when it runs one task: whether the input still
\* exists, whether an exception escapes the task function, and the
\* environment of the overlay operation
ThumbTaskEnvs ==
    [video_duration : {MaxDuration},
     asset_exists : BOOLEAN,
     raise_at : {"none", "open", "write"},
     bad_close : {{}},
     fade_method : {"present"}]

WaterTaskEnvs ==
    [video_duration : {MaxDuration},
     asset_exists : BOOLEAN,
     last_exists : {TRUE},
     raise_at : {"none", "open", "write"},
     bad_close : {{}}]

WorkerEnvs(overlays) ==
    {t \in [input_exists : BOOLEAN, escapes : BOOLEAN, overlay : overlays] :
        /\ (~t.input_exists \/ t.escapes) => t.overlay.raise_at = "none"
        /\ ~t.input_exists => ~t.escapes}

ThumbWorkerEnvs == WorkerEnvs(ThumbTaskEnvs)

WaterWorkerEnvs == WorkerEnvs(WaterTaskEnvs)

TaskEnvs == IF script = "watermark" THEN WaterWorkerEnvs ELSE ThumbWorkerEnvs

\* os.path.exists of the asset the task overlays, as the overlay operation
\* finds it
AssetPresent(video_info) ==
    IF script = "watermark" THEN exists(WATERMARK_PATH)
    ELSE exists(video_info[3])

\* a task function without the test of its input
InputAssumed(env) == TRUE

\* "if not os.path.exists(input_file)" at the start of the task function
InputFound(env) == env.input_exists

\* the call made by the worker thread: [raised, value], with the number of
\* overlay operations it invoked and the files these wrote
process_single_video_threaded(video_info, env) ==
    LET input_file == video_info[1]
        output_file == video_info[2]
        result ==
            IF script = "watermark"
            THEN add_watermark_to_video(input_file, output_file,
                     WATERMARK_PATH, WATERMARK_PATH_LAST_5SEC,
                     WATERMARK_X, WATERMARK_Y,
                     WATERMARK_X_LAST_5SEC, WATERMARK_Y_LAST_5SEC, env.overlay)
            ELSE add_thumbnail_to_video(input_file, output_file, video_info[3],
                     THUMBNAIL_DURATION, THUMBNAIL_FADE_DURATION, env.overlay)
    IN  IF ~InputFound(env)
        THEN [raised |-> FALSE, value |-> <<FALSE, input_file>>,
              calls |-> 0, writes |-> {}]
        ELSE IF env.escapes
        THEN [raised |-> TRUE, value |-> NoneValue, calls |-> 0, writes |-> {}]
        ELSE [raised |-> FALSE, value |-> <<result.ok, input_file>>,
              calls |-> 1, writes |-> result.writes]

\* met: what the worker met when it ran the work item
Queued ==
    [state |-> "queued", raised |-> FALSE, value |-> NoneValue, calls |-> 0,
     writes |-> {}, met |-> NoneValue]

Running == {i \in DOMAIN futures : futures[i].state = "running"}

\* a worker thread is free to take the next work item
WorkerFree == Cardinality(Running) < MAX_WORKERS

\* the body of the as_completed loop without its except clause: the
\* exception of a task is not recorded
RecordOutcomeNoExcept(future, input_path, count, failed) ==
    IF future.raised
    THEN [success_count |-> count, failed_files |-> failed]
    ELSE IF future.value[1]
    THEN [success_count |-> count + 1, failed_files |-> failed]
    ELSE [success_count |-> count,
          failed_files |-> Append(failed, basename(future.value[2]))]

\* a loop body that overwrites failed_files instead of appending to it
RecordOutcomeLastFailureOnly(future, input_path, count, failed) ==
    IF future.raised
    THEN [success_count |-> count, failed_files |-> <<basename(input_path)>>]
    ELSE IF future.value[1]
    THEN [success_count |-> count + 1, failed_files |-> failed]
    ELSE [success_count |-> count,
          failed_files |-> <<basename(future.value[2])>>]

\* the body of the as_completed loop: try / except around future.result()
RecordOutcome(future, input_path, count, failed) ==
    IF future.raised
    THEN [success_count |-> count,
          failed_files |-> Append(failed, basename(input_path))]
    ELSE IF future.value[1]
    THEN [success_count |-> count + 1, failed_files |-> failed]
    ELSE [success_count |-> count,
          failed_files |-> Append(failed, basename(future.value[2]))]

\* a pool that puts a failed work item back on its queue
RequeuedOnFailure(r) ==
    IF r.raised THEN "queued" ELSE IF r.value[1] THEN "done" ELSE "queued"

\* the work item is run once: its future is resolved with the result or
\* with the exception of that one call
ResolvedOnce(r) == "done"

\* a task function that counts its own successes
CountBumpedByWorker(r, count) ==
    IF r.raised THEN count ELSE IF r.value[1] THEN count + 1 ELSE count

\* process_single_video_threaded has no access to the locals success_count
\* and failed_files of process_directory: it only returns its result
CountLeftByWorker(r, count) == count

\* the collection loop without its except clause: the exception of a task
\* leaves process_directory
LoopReraises(future) == IF future.raised THEN "done" ELSE "collect"

\* try / except around future.result(): the loop goes on to the next future
LoopContinues(future) == "collect"

\* a loop that stops after the first completed future
LoopLeftEarly(futs) == \E i \in DOMAIN futs : futs[i].state = "collected"

\* as_completed is exhausted: every future has been yielded
LoopExhausted(futs) == \A i \in DOMAIN futs : futs[i].state = "collected"

----------------------------------------------------------------------------
(* Actions of a batch run *)

Strategies == {"1", "2", "3", "4", "5"}

\* paths the operator may type
TypedPaths ==
    {Typed("skip"), Typed("Skip"), join(USER_DIR, <<"cover", ".png">>),
     join(USER_DIR, <<"missing", ".png">>)}

TypedDirs == {THUMBNAIL_DIR, USER_DIR, "NO_SUCH_DIR"}

\* what the operator may answer for one video under strategy 4
TypedAnswers == TypedPaths

\* lines 205-300 (thumbnail) and 190-223 (watermark): everything before the pool
Enumerate ==
    /\ pc = "start"
    /\ \E strategy \in IF script = "watermark" THEN {"none"} ELSE Strategies :
       \E thumbnail_file \in IF strategy = "1" THEN TypedPaths ELSE {NoneValue} :
       \E thumb_dir \in IF strategy = "3" THEN TypedDirs ELSE {""} :
       \E answers \in IF strategy = "4" THEN [1..Len(VideoFiles) -> TypedAnswers]
                       ELSE {<<>>} :
          LET e == IF script = "watermark" THEN EnumerateWatermark
                   ELSE EnumerateThumbnail(strategy, thumbnail_file, thumb_dir, answers)
          IN  /\ video_tasks' = e.tasks
              /\ log' = e.log
              /\ pc' = IF e.returned THEN "done" ELSE "enumerated"
              /\ inputs' = IF e.prompted
                            THEN [strategy |-> strategy,
                                  thumbnail_file |-> thumbnail_file,
                                  thumb_dir |-> thumb_dir, answers |-> answers]
                            ELSE NoInputs
    /\ UNCHANGED <<script, cpu_count, listing, fs, futures, success_count,
                   failed_files, fault_budget, args, ret, logVars, uploadVars>>

\* success_count = 0, failed_files = [], the executor is created and every
\* task is submitted
Submit ==
    /\ pc = "enumerated"
    /\ pc' = "collect"
    /\ success_count' = 0
    /\ failed_files' = <<>>
    /\ futures' = [i \in DOMAIN video_tasks |-> Queued]
    /\ log' = IF script = "watermark" THEN log
              ELSE Append(log, LogRecord("info", "start", Len(video_tasks)))
    /\ UNCHANGED <<script, cpu_count, listing, fs, inputs, video_tasks, fault_budget,
                   args, ret, logVars, uploadVars>>

\* a free worker thread takes the oldest work item of the queue
StartTask(i) ==
    /\ pc = "collect"
    /\ futures[i].state = "queued"
    /\ \A j \in 1..(i - 1) : futures[j].state # "queued"
    /\ WorkerFree
    /\ futures' = [futures EXCEPT ![i].state = "running"]
    /\ UNCHANGED <<script, cpu_count, listing, fs, pc, inputs, video_tasks, log,
                   success_count, failed_files, fault_budget, args, ret, logVars, uploadVars>>

\* the worker's call of process_single_video_threaded returns or raises
FinishTask(i) ==
    /\ pc = "collect"
    /\ futures[i].state = "running"
    /\ \E env \in TaskEnvs :
          LET r == process_single_video_threaded(video_tasks[i], env)
              fault == \/ ~env.input_exists
                       \/ env.escapes
                       \/ env.overlay.raise_at # "none"
          IN  /\ env.overlay.asset_exists = AssetPresent(video_tasks[i])
              /\ fault => fault_budget > 0
              /\ fault_budget' = IF fault THEN fault_budget - 1 ELSE fault_budget
              /\ futures' = [futures EXCEPT
                               ![i] = [state |-> ResolvedOnce(r),
                                       raised |-> r.raised, value |-> r.value,
                                       calls |-> futures[i].calls + r.calls,
                                       writes |-> futures[i].writes \cup r.writes,
                                       met |-> env]]
              /\ success_count' = CountLeftByWorker(r, success_count)
    /\ UNCHANGED <<script, cpu_count, listing, fs, pc, inputs, video_tasks, log,
                   failed_files, args, ret, logVars, uploadVars>>

\* one iteration of "for future in as_completed(future_to_video)"
Collect(i) ==
    /\ pc = "collect"
    /\ futures[i].state = "done"
    /\ LET r == RecordOutcome(futures[i], video_tasks[i][1], success_count,
                              failed_files)
       IN  /\ success_count' = r.success_count
           /\ failed_files' = r.failed_files
    /\ futures' = [futures EXCEPT ![i].state = "collected"]
    /\ pc' = LoopContinues(futures[i])
    /\ UNCHANGED <<script, cpu_count, listing, fs, inputs, video_tasks, log,
                   fault_budget, args, ret, logVars, uploadVars>>

\* the loop and the with block are left, the summary is logged
Summarize ==
    /\ pc = "collect"
    /\ LoopExhausted(futures)
    /\ pc' = "done"
    /\ log' = Append(log,
                [level |-> "info", msg |-> "summary",
                 item |-> [successful |-> success_count,
                           failed |-> Len(failed_files),
                           total |-> IF script = "watermark" THEN Len(VideoFiles)
                                     ELSE Len(video_tasks),
                           failed_files |-> failed_files]])
    /\ UNCHANGED <<script, cpu_count, listing, fs, inputs, video_tasks, futures,
                   success_count, failed_files, fault_budget, args, ret, logVars, uploadVars>>

Next ==
    \/ Enumerate
    \/ Submit
    \/ \E i \in DOMAIN futures : StartTask(i)
    \/ \E i \in DOMAIN futures : FinishTask(i)
    \/ \E i \in DOMAIN futures : Collect(i)
    \/ Summarize

\* the entries INPUT_DIR can hold, in listing order
FileUniverse ==
    << <<"b", ".MOV">>, <<"a", ".mp4">>, <<"c", ".mkv">>, <<"a", ".png">>,
       <<"d", ".m4v">>, <<"e", ".avi">>, <<"f", ".mp4">>, <<"g", ".mov">> >>

\* thumbnails outside INPUT_DIR, in the order they are added to the file
\* system
ThumbUniverse ==
    <<join(USER_DIR, <<"cover", ".png">>),
      join(THUMBNAIL_DIR, <<"b", "_thumb", ".png">>),
      join(THUMBNAIL_DIR, <<"thumb_", "c", ".png">>),
      join(USER_DIR, <<"a", "_thumbnail", ".png">>)>>

\* the sets of thumbnail files tried
ThumbSets ==
    {{ThumbUniverse[i] : i \in 1..k} : k \in 0..Min(MaxThumbs, Len(ThumbUniverse))}

Listings == {SubSeq(FileUniverse, 1, n) : n \in 0..MaxFiles}

InputDir == join(INPUT_DIR, <<>>)

Init ==
    /\ script \in {"thumbnail", "watermark"}
    /\ cpu_count \in 1..MaxCpu
    /\ listing \in Listings
    /\ \E thumbs \in ThumbSets \cup {{WATERMARK_PATH}} :
          /\ script = "watermark" => thumbs \in {{}, {WATERMARK_PATH}}
          /\ script = "thumbnail" => WATERMARK_PATH \notin thumbs
          /\ fs \in {thumbs \cup {InputDir}} \cup
                     (IF listing = <<>> THEN {thumbs} ELSE {})
    /\ pc = "start"
    /\ inputs = NoInputs
    /\ video_tasks = <<>>
    /\ log = <<>>
    /\ futures = <<>>
    /\ success_count = 0
    /\ failed_files = <<>>
    /\ fault_budget = MaxFaults
    /\ args = <<>>
    /\ ret = "pending"
    /\ THREAD_LOCK = Unlocked
    /\ now = 0
    /\ upload = <<>>
    /\ threads = <<>>

Spec == Init /\ [][Next]_vars

----------------------------------------------------------------------------
(* watermark_adder.process_directory_single_threaded *)

\* a loop that counts every video it went through
CountsEveryVideo(ok, count) == count + 1

\* "if add_watermark_to_video(...): success_count += 1"
SingleThreadedCount(ok, count) == IF ok THEN count + 1 ELSE count

\* the loop calls add_watermark_to_video without a test of the input: for a
\* file that is gone, VideoFileClip(input_path) raises inside the operation
OverlayEnvOf(env) ==
    IF env.input_exists THEN env.overlay
    ELSE [env.overlay EXCEPT !.raise_at = "open"]

\* "for i, filename in enumerate(video_files, 1)"
RECURSIVE SingleThreadedLoop(_, _, _, _)
SingleThreadedLoop(video_files, envs, i, acc) ==
    IF i > Len(video_files) THEN acc
    ELSE LET input_path == join(INPUT_DIR, video_files[i])
             output_path == OutputPath(video_files[i])
             result == add_watermark_to_video(input_path, output_path,
                           WATERMARK_PATH, WATERMARK_PATH_LAST_5SEC,
                           WATERMARK_X, WATERMARK_Y,
                           WATERMARK_X_LAST_5SEC, WATERMARK_Y_LAST_5SEC,
                           OverlayEnvOf(envs[i]))
         IN  SingleThreadedLoop(video_files, envs, i + 1,
                 [success_count |-> SingleThreadedCount(result.ok, acc.success_count),
                  invocations |-> Append(acc.invocations, <<input_path, output_path>>),
                  writes |-> acc.writes \cup result.writes])

\* the whole function, given what each video's processing meets
process_directory_single_threaded(envs) ==
    LET video_files == VideoFiles
        none == [success_count |-> 0, invocations |-> <<>>, writes |-> {}]
    IN  IF ~DirExists(INPUT_DIR)
        THEN [summary |-> FALSE, total |-> 0, run |-> none,
              log |-> <<LogRecord("error", "input_directory_not_found", <<>>)>>]
        ELSE IF video_files = <<>>
        THEN [summary |-> FALSE, total |-> 0, run |-> none,
              log |-> <<LogRecord("warning", "no_videos_found", <<>>)>>]
        ELSE [summary |-> TRUE, total |-> Len(video_files),
              run |-> SingleThreadedLoop(video_files, envs, 1, none),
              log |-> <<LogRecord("info", "start", Len(video_files))>>]

\* after process_directory is done, the same directory is processed by
\* process_directory_single_threaded, each video meeting what its task met
ProcessDirectorySingleThreaded ==
    /\ pc = "done"
    /\ script = "watermark"
    /\ pc' = "replayed"
    /\ ret' = process_directory_single_threaded(
                  [i \in DOMAIN futures |-> futures[i].met])
    /\ UNCHANGED <<frameVars, fs, args>>

InitModes == Init /\ script = "watermark"

NextModes == Next \/ ProcessDirectorySingleThreaded

SpecModes == InitModes /\ [][NextModes]_vars

\* the watermark batch alone, on larger batches and machines
InitPool ==
    /\ script = "watermark"
    /\ cpu_count \in {c \in 1..MaxPoolCpu : c <= 2 \/ c = MaxPoolCpu}
    /\ listing \in {SubSeq(SelectSeq(FileUniverse, IsVideo), 1, n) :
                        n \in 1..MaxPoolVideos}
    /\ fs = {InputDir, WATERMARK_PATH}
    /\ pc = "start"
    /\ inputs = NoInputs
    /\ video_tasks = <<>>
    /\ log = <<>>
    /\ futures = <<>>
    /\ success_count = 0
    /\ failed_files = <<>>
    /\ fault_budget = MaxPoolFaults
    /\ args = <<>>
    /\ ret = "pending"
    /\ THREAD_LOCK = Unlocked
    /\ now = 0
    /\ upload = <<>>
    /\ threads = <<>>

SpecPool == InitPool /\ [][Next]_vars

\* the steps of the pool's worker threads
WorkerStep ==
    \E i \in DOMAIN futures : StartTask(i) \/ FinishTask(i)

\* the steps of the thread that called process_directory, once the tasks
\* are enumerated
MainStep ==
    Submit \/ (\E i \in DOMAIN futures : Collect(i)) \/ Summarize

\* the scheduler runs every thread that can take a step, and every library
\* call made by a task returns or raises
LiveSpec == Spec /\ WF_vars(WorkerStep) /\ WF_vars(MainStep)

----------------------------------------------------------------------------
(* Specification of find_matching_thumbnail alone *)

MatchDirs == {THUMBNAIL_DIR, INPUT_DIR, USER_DIR}

MatchVideo == join(INPUT_DIR, <<"a", ".mp4">>)

MatchPaths ==
    {join(d, patterns(<<"a">>)[k]) : d \in MatchDirs, k \in 1..4}

InitMatch ==
    /\ script = "thumbnail"
    /\ cpu_count = 1
    /\ listing = <<>>
    /\ fs \in SUBSET MatchPaths
    /\ pc = "call"
    /\ inputs = NoInputs
    /\ video_tasks = <<>>
    /\ log = <<>>
    /\ futures = <<>>
    /\ success_count = 0
    /\ failed_files = <<>>
    /\ fault_budget = 0
    /\ args \in {[video_file |-> MatchVideo, thumbnail_patterns |-> ds] :
                    ds \in SeqsNoDup(MatchDirs, MaxDirs)}
    /\ ret = "pending"
    /\ THREAD_LOCK = Unlocked
    /\ now = 0
    /\ upload = <<>>
    /\ threads = <<>>

CallFindMatchingThumbnail ==
    /\ pc = "call"
    /\ pc' = "return"
    /\ ret' = find_matching_thumbnail(args.video_file, args.thumbnail_patterns)
    /\ UNCHANGED <<frameVars, fs, args>>

NextMatch == CallFindMatchingThumbnail

SpecMatch == InitMatch /\ [][NextMatch]_vars

----------------------------------------------------------------------------
(* Specification of the overlay operations alone *)

OverlayInput == join(INPUT_DIR, <<"a", ".mp4">>)

OverlayArgs ==
    {[func |-> "add_thumbnail_to_video",
      input_path |-> OverlayInput,
      output_path |-> join(OUTPUT_DIR, <<"a", "_with_thumbnail", ".mp4">>),
      thumbnail_path |-> join(THUMBNAIL_DIR, <<"a", "_thumb", ".png">>),
      duration |-> d, fade_duration |-> f, env |-> e] :
        d \in 1..MaxOverlay, f \in 0..MaxOverlay, e \in ThumbEnvs}
    \cup
    {[func |-> "add_watermark_to_video",
      input_path |-> OverlayInput,
      output_path |-> join(OUTPUT_DIR, <<"a", "_watermarked", ".mp4">>),
      env |-> e] : e \in WaterEnvs}

InitOverlay ==
    /\ script = "overlay"
    /\ cpu_count = 1
    /\ listing = <<>>
    /\ fs = {}
    /\ pc = "call"
    /\ inputs = NoInputs
    /\ video_tasks = <<>>
    /\ log = <<>>
    /\ futures = <<>>
    /\ success_count = 0
    /\ failed_files = <<>>
    /\ fault_budget = 0
    /\ args \in OverlayArgs
    /\ ret = "pending"
    /\ THREAD_LOCK = Unlocked
    /\ now = 0
    /\ upload = <<>>
    /\ threads = <<>>

CallAddThumbnailToVideo ==
    /\ pc = "call"
    /\ pc' = "return"
    /\ args.func = "add_thumbnail_to_video"
    /\ ret' = add_thumbnail_to_video(args.input_path, args.output_path,
                                     args.thumbnail_path, args.duration,
                                     args.fade_duration, args.env)
    /\ UNCHANGED <<frameVars, fs, args>>

CallAddWatermarkToVideo ==
    /\ pc = "call"
    /\ pc' = "return"
    /\ args.func = "add_watermark_to_video"
    /\ ret' = add_watermark_to_video(args.input_path, args.output_path,
                                     WATERMARK_PATH, WATERMARK_PATH_LAST_5SEC,
                                     WATERMARK_X, WATERMARK_Y,
                                     WATERMARK_X_LAST_5SEC,
                                     WATERMARK_Y_LAST_5SEC, args.env)
    /\ UNCHANGED <<frameVars, fs, args>>

NextOverlay == CallAddThumbnailToVideo \/ CallAddWatermarkToVideo

SpecOverlay == InitOverlay /\ [][NextOverlay]_vars

----------------------------------------------------------------------------
(* Specification of the enumeration alone, on directories whose entries    *)
(* share a stem, or are named like an output                               *)

EnumUniverse ==
    {<<"a", ".mp4">>, <<"a", ".MOV">>, <<"a", "_watermarked", ".mp4">>,
     <<"a", "_with_thumbnail", ".mp4">>, <<"a", ".png">>,
     <<"a", ".mp4", ".txt">>}

\* os.listdir: the entries in any order, none twice
EnumListings == SeqsNoDup(EnumUniverse, MaxEnumFiles)

EnumThumbs ==
    {{join(USER_DIR, <<"cover", ".png">>)},
     {join(USER_DIR, <<"cover", ".png">>),
      join(THUMBNAIL_DIR, <<"a", "_thumb", ".png">>)}}

InitEnum ==
    /\ script \in {"thumbnail", "watermark"}
    /\ cpu_count = 1
    /\ listing \in EnumListings
    /\ fs \in IF script = "watermark" THEN {{InputDir}}
               ELSE {t \cup {InputDir} : t \in EnumThumbs}
    /\ pc = "start"
    /\ inputs = NoInputs
    /\ video_tasks = <<>>
    /\ log = <<>>
    /\ futures = <<>>
    /\ success_count = 0
    /\ failed_files = <<>>
    /\ fault_budget = 0
    /\ args = <<>>
    /\ ret = "pending"
    /\ THREAD_LOCK = Unlocked
    /\ now = 0
    /\ upload = <<>>
    /\ threads = <<>>

NextEnum == Enumerate

SpecEnum == InitEnum /\ [][NextEnum]_vars

----------------------------------------------------------------------------
(* Specification of the logging calls alone.  Thread 0 is the thread that  *)
(* runs process_directory; threads 1..MaxLogWorkers are the workers of the *)
(* executor, alive between its creation and the end of the with block.     *)

LogWorkers == 1..MaxLogWorkers

\* the executor exists and the with block is not left yet
PoolActive == threads[MainThread].at \in {"pool", "waiting", "logging"}

\* where a thread stands between two log calls
Home(t) == IF t = MainThread THEN "pool" ELSE "idle"

\* a thread_safe_log that calls logging.* without taking the lock
Unguarded(holder) == TRUE

\* "with THREAD_LOCK:" is entered only when no thread holds the lock
Guarded(holder) == holder = Unlocked

\* a lock taken with acquire() and released only after logging.* returned
LockKeptAfterRaise(t) == t

\* "with THREAD_LOCK:" left by an exception: __exit__ releases the lock
LockAfterRaise(t) == Unlocked

InitLog ==
    /\ script = "logging"
    /\ cpu_count = MaxLogWorkers
    /\ listing = <<>>
    /\ fs = {}
    /\ pc = "start"
    /\ inputs = NoInputs
    /\ video_tasks = <<>>
    /\ log = <<>>
    /\ futures = <<>>
    /\ success_count = 0
    /\ failed_files = <<>>
    /\ fault_budget = 0
    /\ args = <<>>
    /\ ret = "ready"
    /\ THREAD_LOCK = Unlocked
    /\ now = 0
    /\ upload = <<>>
    /\ \E calls \in [LogWorkers \cup {MainThread} -> 0..MaxLogCalls] :
          threads = [t \in LogWorkers \cup {MainThread} |->
                        [at |-> IF t = MainThread THEN "before_pool" ELSE "idle",
                         left |-> calls[t],
                         raised |-> FALSE]]

\* process_directory calls logging.info / logging.error itself, before the
\* executor is created and after the with block
BeginDirectLog ==
    /\ threads[MainThread].at \in {"before_pool", "after_pool"}
    /\ threads' = [threads EXCEPT ![MainThread].at =
                      IF @ = "before_pool" THEN "logging_before_pool"
                      ELSE "logging_after_pool"]
    /\ UNCHANGED <<batchVars, THREAD_LOCK>>

\* the direct call returns; before the pool, the executor is then created
\* and the tasks are submitted
EndDirectLog ==
    /\ threads[MainThread].at \in {"logging_before_pool", "logging_after_pool"}
    /\ threads' = [threads EXCEPT ![MainThread].at =
                      IF @ = "logging_before_pool" THEN "pool" ELSE "returned"]
    /\ UNCHANGED <<batchVars, THREAD_LOCK>>

\* a worker, or the collection loop in its except clause, calls
\* thread_safe_log
CallThreadSafeLog(t) ==
    /\ PoolActive
    /\ threads[t].at = Home(t)
    /\ threads[t].left > 0
    /\ threads' = [threads EXCEPT ![t].at = "waiting"]
    /\ UNCHANGED <<batchVars, THREAD_LOCK>>

\* "with THREAD_LOCK:" is entered and logging.* is called
Acquire(t) ==
    /\ threads[t].at = "waiting"
    /\ Guarded(THREAD_LOCK)
    /\ THREAD_LOCK' = t
    /\ threads' = [threads EXCEPT ![t].at = "logging"]
    /\ UNCHANGED batchVars

\* logging.* has returned and the with block is left
Release(t) ==
    /\ threads[t].at = "logging"
    /\ THREAD_LOCK' = Unlocked
    /\ threads' = [threads EXCEPT ![t].at = Home(t), ![t].left = @ - 1]
    /\ UNCHANGED batchVars

\* logging.* raises inside the with block: the block is left through
\* __exit__ and the exception goes on to the caller.  In a worker it ends
\* the work item (the future keeps the exception); in the collection loop
\* it leaves the loop, and the with block of the executor joins the workers
RaiseInLog(t) ==
    /\ threads[t].at = "logging"
    /\ THREAD_LOCK' = LockAfterRaise(t)
    /\ threads' = [threads EXCEPT ![t] =
                      [at |-> Home(t),
                       left |-> IF t = MainThread THEN 0 ELSE @.left - 1,
                       raised |-> TRUE]]
    /\ UNCHANGED batchVars

\* the worker has no work item left
WorkerExit(t) ==
    /\ PoolActive
    /\ threads[t].at = "idle"
    /\ threads[t].left = 0
    /\ threads' = [threads EXCEPT ![t].at = "exited"]
    /\ UNCHANGED <<batchVars, THREAD_LOCK>>

\* the with block of the executor is left: shutdown(wait=True) has joined
\* every worker
LeavePool ==
    /\ threads[MainThread].at = "pool"
    /\ threads[MainThread].left = 0
    /\ \A t \in LogWorkers : threads[t].at = "exited"
    /\ threads' = [threads EXCEPT ![MainThread].at =
                      IF threads[MainThread].raised THEN "returned"
                      ELSE "after_pool"]
    /\ UNCHANGED <<batchVars, THREAD_LOCK>>

NextLog ==
    \/ BeginDirectLog
    \/ EndDirectLog
    \/ \E t \in DOMAIN threads : CallThreadSafeLog(t)
    \/ \E t \in DOMAIN threads : Acquire(t)
    \/ \E t \in DOMAIN threads : Release(t)
    \/ \E t \in DOMAIN threads : RaiseInLog(t)
    \/ \E t \in LogWorkers : WorkerExit(t)
    \/ LeavePool

SpecLog == InitLog /\ [][NextLog]_vars

\* what one thread does on its own: a worker thread, or the main thread in
\* process_directory
LogThreadStep(t) ==
    \/ CallThreadSafeLog(t)
    \/ Acquire(t)
    \/ Release(t)
    \/ RaiseInLog(t)
    \/ t \in LogWorkers /\ WorkerExit(t)
    \/ t = MainThread /\ (BeginDirectLog \/ EndDirectLog \/ LeavePool)

\* every thread that can run is run by the operating system, and a logging
\* call ends; between two log calls nothing of the model has to wait, the
\* overlay operations being taken to end
LiveSpecLog ==
    /\ SpecLog
    /\ \A t \in LogWorkers \cup {MainThread} : WF_vars(LogThreadStep(t))

----------------------------------------------------------------------------
(* Claims about find_matching_thumbnail (checked under SpecMatch) *)

Returned == pc = "return" /\ "thumbnail_patterns" \in DOMAIN args

ArgHits == Hits(splitext(basename(args.video_file))[1], args.thumbnail_patterns)

ArgPath(h) ==
    join(args.thumbnail_patterns[h[2]],
         patterns(splitext(basename(args.video_file))[1])[h[1]])

\* C5 as stated (refuted): directory order takes precedence over pattern
\* order, so whenever some pattern exists in an earlier directory the
\* returned path lies in the earliest directory that holds any match.
C5_DirectoryOrderFirst ==
    Returned =>
        \A h \in ArgHits :
            (\A g \in ArgHits : h[2] <= g[2])
                => ret # NoneValue /\ ret[1] = args.thumbnail_patterns[h[2]]

\* C5 amended: pattern order takes precedence over directory order.  The
\* returned file name is the highest-priority pattern that exists in any
\* candidate directory, even when an earlier directory holds a match for a
\* lower-priority pattern; every directory is probed for one pattern before
\* the next pattern is tried.
C5_PatternOrderFirst ==
    Returned =>
        \A h \in ArgHits :
            (\A g \in ArgHits : h[1] <= g[1])
                => ret # NoneValue /\ basename(ret) = basename(ArgPath(h))

\* C5 witness: the best pattern lives only in a later directory while an
\* earlier directory holds a lower-priority pattern, and the later one is
\* returned.
C5_Witness ==
    /\ Returned
    /\ \E h, g \in ArgHits :
          /\ h[1] < g[1]
          /\ g[2] < h[2]
          /\ \A e \in ArgHits : g[2] <= e[2] /\ h[1] <= e[1]
          /\ ret = ArgPath(h)

\* C6: when two candidate directories both hold the same pattern and no
\* higher-priority pattern exists anywhere, the path in the directory that
\* comes first in the list is returned; None is returned exactly when no
\* pattern exists in any candidate directory.
C6_FirstDirectoryWinsTie ==
    Returned =>
        /\ (ret = NoneValue) <=> (ArgHits = {})
        /\ \A h, g \in ArgHits :
              (/\ h[1] = g[1]
               /\ h[2] < g[2]
               /\ \A e \in ArgHits : e[1] >= h[1]
               /\ \A e \in ArgHits : e[1] = h[1] => e[2] >= h[2])
                  => ret = ArgPath(h)

\* C6 witness: the same pattern in two directories, nothing better anywhere,
\* and the first directory's file returned.
C6_Witness ==
    /\ Returned
    /\ \E h, g \in ArgHits :
          /\ h[1] = g[1]
          /\ h[2] < g[2]
          /\ \A e \in ArgHits : LoopBefore(h, e)
          /\ ret = ArgPath(h)

----------------------------------------------------------------------------
(* Claims about the overlay operations (checked under SpecOverlay) *)

OverlayReturned == pc = "return" /\ "func" \in DOMAIN args

\* C4 as stated (refuted by the code): on every exit path of the overlay
\* operation every clip that was opened has had close() called exactly
\* once when the function returns, and no other clip is closed.
C4_EveryClipClosedOnce ==
    OverlayReturned =>
        \A r \in DOMAIN ret.close_calls :
            ret.close_calls[r] = (IF r \in ret.opened THEN 1 ELSE 0)

\* C7: in add_watermark_to_video a source of duration d <= 5 s takes the
\* full-length branch (both overlays from 0 for d), d = 5 s included, and
\* only d > 5 s takes the trailing-window branch (second overlay of 5 s
\* starting at d - 5 s).
C7_ShortSourceFullLength ==
    (OverlayReturned /\ args.func = "add_watermark_to_video"
        /\ Len(ret.overlays) = 2) =>
        LET d == args.env.video_duration
        IN  /\ ret.overlays[1].start = 0 /\ ret.overlays[1].duration = d
            /\ d <= 50 =>
                  /\ ret.branch = "full_length"
                  /\ ret.overlays[2].start = 0
                  /\ ret.overlays[2].duration = d
            /\ d > 50 =>
                  /\ ret.branch = "trailing_window"
                  /\ ret.overlays[2].start = d - 50
                  /\ ret.overlays[2].duration = 50

\* C7 witness: a 5.0 s source written with the full-length placement.
C7_Witness ==
    /\ OverlayReturned
    /\ args.func = "add_watermark_to_video"
    /\ ret.ok
    /\ args.env.video_duration = 50
    /\ ret.branch = "full_length"
    /\ ret.overlays[2].duration = 50

\* C8 as stated (refuted): in both scripts an overlay whose fixed duration
\* D is shorter than the source duration S starts at S - D, ends at S, and
\* the composite is never longer than the source.
C8_OverlayEndsWithSource ==
    (OverlayReturned /\ "final_video" \in ret.opened) =>
        \A i \in DOMAIN ret.overlays :
            ret.overlays[i].duration < ret.source_duration
                => /\ ret.overlays[i].start
                        = ret.source_duration - ret.overlays[i].duration
                   /\ ret.composite_end <= ret.source_duration

\* C8 amended: in the watermark script the 5 s overlay of a source longer
\* than 5 s starts at S - 5 s, so it ends at S and the composite is as long
\* as the source; in the thumbnail script the overlay of duration D starts
\* at S, after the last frame of the source, so it ends at S + D and the
\* composite is D longer than the source.
C8_TailWindowOrAppended ==
    (OverlayReturned /\ "final_video" \in ret.opened) =>
        LET S == ret.source_duration
        IN  IF args.func = "add_watermark_to_video"
            THEN /\ \A i \in DOMAIN ret.overlays :
                        ret.overlays[i].duration < S
                            => /\ ret.overlays[i].duration = 50
                               /\ ret.overlays[i].start = S - 50
                 /\ \A i \in DOMAIN ret.overlays :
                        ret.overlays[i].start + ret.overlays[i].duration = S
                 /\ ret.composite_end = S
            ELSE /\ Len(ret.overlays) = 1
                 /\ ret.overlays[1].start = S
                 /\ ret.overlays[1].duration = args.duration
                 /\ ret.composite_end = S + args.duration

\* C8 witness: a thumbnail shorter than its source, written starting at the
\* end of the source.
C8_Witness ==
    /\ OverlayReturned
    /\ args.func = "add_thumbnail_to_video"
    /\ ret.ok
    /\ args.duration < ret.source_duration
    /\ ret.overlays[1].start = ret.source_duration
    /\ ret.composite_end > ret.source_duration

----------------------------------------------------------------------------
(* Claims about a batch run (checked under Spec, SpecPool and LiveSpec) *)

Collected == {i \in DOMAIN futures : futures[i].state = "collected"}

Submitted == pc = "collect" \/ (pc = "done" /\ futures # <<>>)

SummaryLogged ==
    log # <<>> /\ log[Len(log)].msg = "summary"

\* C1: at every point of the collection loop success_count +
\* len(failed_files) equals the number of futures already consumed, and
\* when the loop has ended that number equals the number of tasks
\* submitted: one outcome recorded per submitted task.
C1_OneOutcomePerTask ==
    Submitted =>
        /\ success_count + Len(failed_files) = Cardinality(Collected)
        /\ pc = "done" =>
              /\ Len(futures) = Len(video_tasks)
              /\ success_count + Len(failed_files) = Len(video_tasks)

\* C1 witness: a finished batch of at least three tasks in which one task
\* raised, one returned False and one returned True.
C1_Witness ==
    /\ pc = "done"
    /\ success_count >= 1
    /\ Len(failed_files) >= 2
    /\ \E i \in DOMAIN futures : futures[i].raised
    /\ \E i \in DOMAIN futures : ~futures[i].raised /\ ~futures[i].value[1]

\* C2: the number of tasks running process_single_video_threaded at the
\* same time never exceeds min(cpu_count, 4), hence never 4, whatever the
\* batch size; a queued task starts only while fewer than that many run.
C2_RunningWithinMaxWorkers ==
    /\ Cardinality(Running) <= (IF cpu_count < 4 THEN cpu_count ELSE 4)
    /\ Cardinality(Running) <= 4

\* C2 witness: more CPUs than the cap, a batch larger than the cap, four
\* tasks running and a fifth still queued.
C2_Witness ==
    /\ cpu_count > 4
    /\ Cardinality(Running) = 4
    /\ \E i \in DOMAIN futures : futures[i].state = "queued"

TaskFailed(i) == futures[i].raised \/ ~futures[i].value[1]

TaskName(i) == basename(video_tasks[i][1])

\* steps of C3: a worker finishing task i touches nothing but the future
\* of task i, whose outcome is what process_single_video_threaded yields
\* for that task alone
FinishIsolated ==
    \A i \in DOMAIN futures :
        (futures[i].state = "running" /\ i \in DOMAIN futures'
            /\ futures'[i].state = "done") =>
            /\ \A j \in DOMAIN futures : j # i => futures'[j] = futures[j]
            /\ <<pc, success_count, failed_files, video_tasks>>'
                  = <<pc, success_count, failed_files, video_tasks>>
            /\ \E env \in TaskEnvs :
                  LET r == process_single_video_threaded(video_tasks[i], env)
                  IN  /\ env.overlay.asset_exists = AssetPresent(video_tasks[i])
                      /\ futures'[i].raised = r.raised
                      /\ futures'[i].value = r.value

\* steps of C3: collecting a failed or raising task records that task's
\* name once and goes on with the loop
FailureRecordedLoopGoesOn ==
    \A i \in DOMAIN futures :
        (futures[i].state = "done" /\ i \in DOMAIN futures'
            /\ futures'[i].state = "collected" /\ TaskFailed(i)) =>
            /\ failed_files' = Append(failed_files, TaskName(i))
            /\ success_count' = success_count
            /\ pc' = "collect"
            /\ \A j \in DOMAIN futures : j # i => futures'[j] = futures[j]

\* C3: a task that fails or raises is recorded as failed for that task
\* only; every other submitted task is still executed, with the outcome
\* its own processing yields; the loop is never left by an exception: when
\* process_directory is done, failed_files holds exactly the names of the
\* failed tasks, each once, and every task was run and collected.
C3_FailureIsolation ==
    /\ [][FinishIsolated /\ FailureRecordedLoopGoesOn]_vars
    /\ [](pc = "done" /\ futures # <<>> =>
            /\ SummaryLogged
            /\ \A i \in DOMAIN futures :
                  /\ futures[i].state = "collected"
                  /\ Count(failed_files, TaskName(i))
                        = (IF TaskFailed(i) THEN 1 ELSE 0))

\* C3 witness: a finished batch in which one task raised, a sibling
\* returned False and a third succeeded.
C3_Witness ==
    /\ pc = "done"
    /\ Len(futures) >= 3
    /\ \E i, j, k \in DOMAIN futures :
          /\ futures[i].raised
          /\ ~futures[j].raised /\ ~futures[j].value[1]
          /\ ~futures[k].raised /\ futures[k].value[1]
          /\ futures[k].state = "collected"
    /\ success_count = 1

\* the directories probed by the strategy typed
NameMatchDirs ==
    IF inputs.strategy = "2" THEN <<THUMBNAIL_DIR, INPUT_DIR>>
    ELSE <<inputs.thumb_dir>>

\* some pattern of the video exists in some probed directory
HasAsset(filename) ==
    \E d \in Range(NameMatchDirs), k \in 1..4 :
        exists(join(d, patterns(splitext(filename)[1])[k]))

LacksAsset(filename) == ~HasAsset(filename)

IsMissWarning(record) == record.msg = "no_matching_thumbnail"

NameMatchRun ==
    /\ script = "thumbnail"
    /\ pc \in {"enumerated", "collect", "done"}
    /\ inputs.strategy \in {"2", "3"}
    /\ inputs.strategy = "3" => DirExists(inputs.thumb_dir)

\* C9: under strategies 2 and 3 the task list holds exactly the videos for
\* which an asset exists, in enumeration order; every video without one
\* yields one warning and no task; the batch goes on, and the summary's
\* total counts the enumerated tasks only.
C9_MissDropsTaskOnly ==
    NameMatchRun =>
        LET found == SelectSeq(VideoFiles, HasAsset)
            missed == SelectSeq(VideoFiles, LacksAsset)
            warned == SelectSeq(log, IsMissWarning)
        IN  /\ Len(video_tasks) = Len(found)
            /\ \A j \in DOMAIN video_tasks :
                  /\ video_tasks[j][1] = join(INPUT_DIR, found[j])
                  /\ exists(video_tasks[j][3])
            /\ Len(warned) = Len(missed)
            /\ \A j \in DOMAIN warned : warned[j].item = missed[j]
            /\ (pc = "done" /\ found # <<>>) =>
                  /\ SummaryLogged
                  /\ log[Len(log)].item.total = Len(found)
                  /\ success_count + Len(failed_files) = Len(found)

\* C9 witness: three videos, one without a matching thumbnail: two tasks,
\* one warning, a summary with total 2.
C9_Witness ==
    /\ NameMatchRun
    /\ pc = "done"
    /\ Len(VideoFiles) = 3
    /\ Len(video_tasks) = 2
    /\ Len(SelectSeq(log, IsMissWarning)) = 1
    /\ SummaryLogged
    /\ log[Len(log)].item.total = 2

\* C10: process_directory logs its summary and returns only when no
\* submitted task is queued, running or uncollected, and, every overlay
\* operation terminating, a batch that was submitted does reach the
\* summary with every task's result collected.
C10_WaitAll ==
    /\ []((pc = "done" /\ futures # <<>>) =>
            /\ \A i \in DOMAIN futures : futures[i].state = "collected"
            /\ Len(futures) = Len(video_tasks))
    /\ (pc = "collect") ~>
            (/\ pc = "done"
             /\ SummaryLogged
             /\ \A i \in DOMAIN futures : futures[i].state = "collected")

\* C10 witness: a batch of three tasks that has reached its summary.
C10_Witness ==
    /\ pc = "done"
    /\ SummaryLogged
    /\ Len(futures) = 3
    /\ \A i \in DOMAIN futures : futures[i].state = "collected"

----------------------------------------------------------------------------
(* Configuration errors and the shared asset *)

\* the batch uses one asset for all videos and that asset does not exist
SharedAssetMissing ==
    \/ script = "watermark" /\ ~exists(WATERMARK_PATH)
    \/ /\ script = "thumbnail"
       /\ inputs.strategy = "1"
       /\ ~exists(inputs.thumbnail_file)

\* nothing was enumerated, submitted, invoked or recorded
NothingRan ==
    /\ video_tasks = <<>>
    /\ futures = <<>>
    /\ success_count = 0
    /\ failed_files = <<>>

\* C11: in a batch that uses one shared asset for all videos (thumbnail
\* strategy 1, the watermark batch), a missing shared asset means that no
\* task is enumerated or submitted, no overlay operation is invoked and no
\* per-task failure is recorded.
C11_MissingSharedAssetAborts == SharedAssetMissing => NothingRan

----------------------------------------------------------------------------
(* Asset validation and the fade gate (checked under SpecOverlay) *)

IsThumbnailCall == OverlayReturned /\ args.func = "add_thumbnail_to_video"

IsWatermarkCall == OverlayReturned /\ args.func = "add_watermark_to_video"

\* some asset the invocation is configured with does not exist
SomeAssetMissing ==
    \/ ~args.env.asset_exists
    \/ args.func = "add_watermark_to_video" /\ ~args.env.last_exists

\* nothing was composited and nothing was written
NoCompositeNoWrite ==
    /\ ~ret.ok
    /\ ret.writes = {}
    /\ "final_video" \notin ret.opened

\* C12 as stated (refuted): whenever any required asset path (thumbnail,
\* main watermark, last-5-seconds watermark) does not exist, the operation
\* fails without compositing or writing and reports asset-not-found.
C12_EveryMissingAssetFails ==
    (OverlayReturned /\ SomeAssetMissing) =>
        NoCompositeNoWrite /\ ret.failure = "asset_not_found"

\* C12 amended: the asset is looked for after the source was opened.  When
\* the source opens and the thumbnail, or the main watermark, does not
\* exist, the operation returns False without compositing or writing and
\* reports asset-not-found; when the source does not open, the failure
\* reported is the exception, whatever the assets; a missing last-5-seconds
\* watermark is no failure: the main watermark is overlaid in its place.
C12_PrimaryAssetValidatedAfterOpen ==
    OverlayReturned =>
        /\ (args.env.raise_at # "open" /\ ~args.env.asset_exists) =>
              /\ NoCompositeNoWrite
              /\ ret.overlays = <<>>
              /\ ret.failure = "asset_not_found"
        /\ args.env.raise_at = "open" =>
              /\ NoCompositeNoWrite
              /\ ret.failure = "exception"
        /\ (/\ args.func = "add_watermark_to_video"
            /\ args.env.asset_exists
            /\ ~args.env.last_exists
            /\ args.env.raise_at = "none"
            /\ args.env.bad_close = {}) =>
              /\ ret.ok
              /\ ret.failure = "none"
              /\ ret.writes = {args.output_path}
              /\ ret.overlays[2].asset = WATERMARK_PATH

\* C12 witness: the last-5-seconds watermark is missing, the main one is
\* overlaid twice and the output is written.
C12_Witness ==
    /\ IsWatermarkCall
    /\ args.env.asset_exists
    /\ ~args.env.last_exists
    /\ ret.ok
    /\ ret.overlays[1].asset = WATERMARK_PATH
    /\ ret.overlays[2].asset = WATERMARK_PATH
    /\ ret.writes # {}

\* C13: the fade is applied only when fade_duration is positive and
\* strictly less than half the overlay duration (never when fade_duration
\* >= duration / 2, the shipped duration = fade = 0.1 s included); when no
\* fade method exists or the fade call raises, a warning is logged and the
\* operation goes on to composite and write, and succeeds whenever it
\* would have succeeded with the fade.
C13_FadeGatedAndOptional ==
    IsThumbnailCall =>
        LET d == args.duration
            f == args.fade_duration
            gate == f > 0 /\ 2 * f < d
            clean == /\ args.env.asset_exists
                     /\ args.env.raise_at = "none"
                     /\ args.env.bad_close = {}
        IN  /\ ret.fade = "applied" => gate
            /\ 2 * f >= d => ret.fade = "not_attempted"
            /\ (d = THUMBNAIL_DURATION /\ f = THUMBNAIL_FADE_DURATION)
                  => ret.fade = "not_attempted"
            /\ clean =>
                  /\ ret.ok
                  /\ ret.writes = {args.output_path}
                  /\ "final_video" \in ret.opened
                  /\ (gate /\ args.env.fade_method = "present")
                        => ret.fade = "applied"
                  /\ (gate /\ args.env.fade_method = "missing")
                        => ret.fade = "unavailable"
                  /\ (gate /\ args.env.fade_method = "raises")
                        => ret.fade = "raised"

\* C13 witness: the gate is open, the fade call raises, and the thumbnail is
\* still composited and written.
C13_Witness ==
    /\ IsThumbnailCall
    /\ 2 * args.fade_duration < args.duration
    /\ args.env.fade_method = "raises"
    /\ ret.fade = "raised"
    /\ ret.ok
    /\ ret.writes = {args.output_path}

----------------------------------------------------------------------------
(* Claims about the enumerated tasks (checked under SpecEnum) *)

Enumerated == pc = "enumerated"

TaskInputs == {video_tasks[j][1] : j \in DOMAIN video_tasks}

TaskOutputs == {video_tasks[j][2] : j \in DOMAIN video_tasks}

\* C14: every task's output path is OUTPUT_DIR/{name}{suffix}{ext} of its
\* input; it is the path of no input (of a task, or of any entry of
\* INPUT_DIR), and two tasks of a batch never have the same output path.
C14_OutputsDisjoint ==
    Enumerated =>
        /\ \A j \in DOMAIN video_tasks :
              LET input == video_tasks[j][1]
                  name == splitext(basename(input))[1]
                  ext == splitext(basename(input))[2]
              IN  /\ input[1] = INPUT_DIR
                  /\ basename(input) \in Range(listing)
                  /\ video_tasks[j][2] = join(OUTPUT_DIR, name \o <<Suffix>> \o ext)
                  /\ ext # <<>>
        /\ TaskOutputs \cap TaskInputs = {}
        /\ TaskOutputs \cap {join(INPUT_DIR, f) : f \in Range(listing)} = {}
        /\ \A j, k \in DOMAIN video_tasks :
              j # k => video_tasks[j][2] # video_tasks[k][2]

\* C14 witness: two videos with the same stem and an entry of INPUT_DIR that
\* is named like the output of one of them, each with a task of its own.
C14_Witness ==
    /\ Enumerated
    /\ Len(video_tasks) = 3
    /\ \E j, k \in DOMAIN video_tasks :
          /\ j # k
          /\ splitext(basename(video_tasks[j][1]))[1]
                = splitext(basename(video_tasks[k][1]))[1]
    /\ \E j, k \in DOMAIN video_tasks :
          basename(video_tasks[j][2]) = basename(video_tasks[k][1])

\* position of a file name in the list of eligible videos
IndexIn(video_files, filename) ==
    CHOOSE i \in DOMAIN video_files : video_files[i] = filename

\* C20: in the thumbnail batch, under every strategy, the progress label of
\* a task is i/N with i the 1-based position of its video among all
\* eligible videos and N their number before any miss or skip is dropped;
\* the labels of the tasks increase strictly, possibly with gaps, and N is
\* at least the number of tasks.
C20_LabelsPreFilter ==
    (Enumerated /\ script = "thumbnail") =>
        /\ \A j \in DOMAIN video_tasks :
              /\ basename(video_tasks[j][1]) \in Range(VideoFiles)
              /\ video_tasks[j][4]
                    = <<IndexIn(VideoFiles, basename(video_tasks[j][1])),
                        Len(VideoFiles)>>
        /\ \A j, k \in DOMAIN video_tasks :
              j < k => video_tasks[j][4][1] < video_tasks[k][4][1]
        /\ Len(video_tasks) <= Len(VideoFiles)

\* C20 witness: three eligible videos, the second skipped: the two tasks are
\* labelled 1/3 and 3/3.
C20_Witness ==
    /\ Enumerated
    /\ script = "thumbnail"
    /\ inputs.strategy = "4"
    /\ Len(video_tasks) = 2
    /\ video_tasks[1][4] = <<1, 3>>
    /\ video_tasks[2][4] = <<3, 3>>

----------------------------------------------------------------------------
(* Claims about the life of a task and the counters (checked under Spec) *)

Resolved(future) == future.state \in {"done", "collected"}

TaskSucceeded(i) ==
    Resolved(futures[i]) /\ ~futures[i].raised /\ futures[i].value[1]

\* a step of C15: a resolved future is never run again, and once the tasks
\* are submitted neither the task list nor the list of futures changes
NoRerun ==
    /\ \A i \in DOMAIN futures :
          Resolved(futures[i]) =>
              /\ i \in DOMAIN futures'
              /\ Resolved(futures'[i])
              /\ futures'[i].calls = futures[i].calls
              /\ futures'[i].value = futures[i].value
    /\ Submitted => video_tasks' = video_tasks /\ Len(futures') = Len(futures)

\* C15: each eligible video yields at most one task per enumeration, each
\* enumerated task is submitted once (one future per task), and the
\* overlay operation is invoked at most once per task whatever its
\* outcome: a failed task is never executed again.
C15_ExactlyOnceNoRetry ==
    /\ [](/\ \A j, k \in DOMAIN video_tasks :
                j # k => video_tasks[j][1] # video_tasks[k][1]
          /\ \A j \in DOMAIN video_tasks :
                basename(video_tasks[j][1]) \in Range(VideoFiles)
          /\ Submitted => DOMAIN futures = DOMAIN video_tasks
          /\ \A i \in DOMAIN futures :
                /\ futures[i].calls <= 1
                /\ ~Resolved(futures[i]) => futures[i].calls = 0)
    /\ [][NoRerun]_vars

\* C15 witness: a finished batch in which a task whose overlay operation was
\* invoked once has failed, next to a task that succeeded.
C15_Witness ==
    /\ pc = "done"
    /\ SummaryLogged
    /\ \E i, k \in DOMAIN futures :
          /\ ~futures[i].raised
          /\ ~futures[i].value[1]
          /\ futures[i].calls = 1
          /\ TaskSucceeded(k)
          /\ futures[k].calls = 1

\* the input directory is absent, the strategy typed is none of 1-4, or the
\* directory typed under strategy 3 does not exist
ConfigurationError ==
    \/ InputDir \notin fs
    \/ script = "thumbnail" /\ inputs.strategy \notin {"", "1", "2", "3", "4"}
    \/ /\ script = "thumbnail"
       /\ inputs.strategy = "3"
       /\ inputs.thumb_dir \notin {THUMBNAIL_DIR, USER_DIR}
       /\ join(inputs.thumb_dir, <<>>) \notin fs

\* C16: when the input directory does not exist, the strategy choice is
\* not one of 1-4, or the strategy-3 directory does not exist,
\* process_directory reports the error and returns with no task submitted,
\* no overlay operation invoked and no output written.
C16_ConfigurationErrorStops ==
    ConfigurationError =>
        /\ NothingRan
        /\ pc \in {"start", "done"}
        /\ pc = "done" =>
              /\ Len(log) = 1
              /\ log[1].level = "error"
              /\ log[1].msg \in {"input_directory_not_found",
                                 "invalid_strategy_choice",
                                 "thumbnail_directory_not_found"}

\* C16 witness: videos and thumbnails are there, the strategy typed is 5,
\* and process_directory has returned without a task.
C16_Witness ==
    /\ pc = "done"
    /\ script = "thumbnail"
    /\ inputs.strategy = "5"
    /\ Len(VideoFiles) >= 2
    /\ NothingRan
    /\ log[1].msg = "invalid_strategy_choice"

\* C17: whatever the order in which the tasks complete, the summary is a
\* function of the per-task outcomes: success_count is the number of tasks
\* whose overlay operation returned success, failed_files holds the
\* basename of each other submitted task exactly once, and the logged
\* summary carries these counts.
C17_SummaryOrderIndependent ==
    (pc = "done" /\ futures # <<>>) =>
        LET succeeded == {i \in DOMAIN futures : TaskSucceeded(i)}
            others == DOMAIN futures \ succeeded
        IN  /\ success_count = Cardinality(succeeded)
            /\ \A i \in succeeded : futures[i].calls = 1
            /\ Len(failed_files) = Cardinality(others)
            /\ Range(failed_files) = {TaskName(i) : i \in others}
            /\ SummaryLogged
            /\ log[Len(log)].item.successful = Cardinality(succeeded)
            /\ log[Len(log)].item.failed = Cardinality(others)
            /\ Range(log[Len(log)].item.failed_files)
                  = {TaskName(i) : i \in others}

\* C17 witness: two failed tasks collected in the reverse of their
\* submission order, next to a success.
C17_Witness ==
    /\ pc = "done"
    /\ success_count >= 1
    /\ Len(failed_files) = 2
    /\ \E i, j \in DOMAIN futures :
          /\ i < j
          /\ failed_files = <<TaskName(j), TaskName(i)>>

\* a step taken by a worker thread of the pool
WorkerMoved ==
    \E i \in DOMAIN futures :
        /\ i \in DOMAIN futures'
        /\ \/ futures[i].state = "queued" /\ futures'[i].state = "running"
           \/ futures[i].state = "running" /\ futures'[i].state # "running"

\* a step taken by the thread that runs process_directory
MainMoved ==
    \/ pc = "enumerated" /\ pc' = "collect"
    \/ \E i \in DOMAIN futures :
          /\ i \in DOMAIN futures'
          /\ futures[i].state = "done"
          /\ futures'[i].state = "collected"

\* C19: success_count and failed_files are written only by the thread
\* that runs the collection loop; no step of a worker thread changes them.
C19_SingleWriter ==
    [][/\ WorkerMoved => UNCHANGED <<success_count, failed_files>>
       /\ (success_count' # success_count \/ failed_files' # failed_files)
             => MainMoved /\ ~WorkerMoved]_vars

\* C19 witness: a worker is running a task while the counters already hold
\* a success and a failure.
C19_Witness ==
    /\ pc = "collect"
    /\ \E i \in DOMAIN futures : futures[i].state = "running"
    /\ success_count >= 1
    /\ failed_files # <<>>

----------------------------------------------------------------------------
(* Claims about the logging calls (checked under SpecLog) *)

\* the threads that are inside a logging.* call
InLoggingCall ==
    {t \in DOMAIN threads :
        threads[t].at \in {"logging", "logging_before_pool", "logging_after_pool"}}

WorkersAlive == \E t \in LogWorkers : threads[t].at # "exited"

\* C18: while the pool is active at most one thread is inside the logging
\* call of thread_safe_log, that thread holds THREAD_LOCK, and no thread is
\* in a logging call made outside the lock; the direct logging calls of
\* process_directory happen only before the executor exists and after every
\* worker has exited.
C18_LoggerMutualExclusion ==
    /\ PoolActive =>
          /\ Cardinality(InLoggingCall) <= 1
          /\ \A t \in InLoggingCall :
                threads[t].at = "logging" /\ THREAD_LOCK = t
    /\ threads[MainThread].at = "logging_before_pool" =>
          \A t \in LogWorkers : threads[t].at = "idle"
    /\ threads[MainThread].at = "logging_after_pool" => ~WorkersAlive
    /\ \A t \in LogWorkers : threads[t].at \in {"waiting", "logging"} => PoolActive

\* C18 witness: a worker is inside the logging call, holding the lock, while
\* another worker and the collection loop wait for it.
C18_Witness ==
    /\ PoolActive
    /\ \E t, u \in LogWorkers :
          /\ t # u
          /\ threads[t].at = "logging"
          /\ THREAD_LOCK = t
          /\ threads[u].at = "waiting"
    /\ threads[MainThread].at = "waiting"

----------------------------------------------------------------------------
(* Claims about strategy 4 and the extension filter (checked under SpecEnum) *)

ManualRun ==
    /\ script = "thumbnail"
    /\ pc \in {"enumerated", "done"}
    /\ inputs.strategy = "4"

\* the word skip, in the letter cases tried
SkipAnswered(answer) == answer \in {Typed("skip"), Typed("Skip")}

IsManualWarning(record) == record.msg = "thumbnail_not_found_skipping"

\* C21: under strategy 4 a video answered with skip, in any letter case,
\* yields no task, no warning and no failure; a video answered with a path
\* that does not exist yields no task and one warning; every other video
\* yields one task carrying the path typed; all videos are prompted and
\* the tasks and warnings follow the order of the videos.
C21_ManualSkipAndMiss ==
    ManualRun =>
        LET answers == inputs.answers
            index == [i \in 1..Len(VideoFiles) |-> i]
            Kept(i) == ~SkipAnswered(answers[i]) /\ exists(answers[i])
            Missed(i) == ~SkipAnswered(answers[i]) /\ ~exists(answers[i])
            kept == SelectSeq(index, Kept)
            missed == SelectSeq(index, Missed)
            warned == SelectSeq(log, IsManualWarning)
        IN  /\ Len(answers) = Len(VideoFiles)
            /\ Len(video_tasks) = Len(kept)
            /\ \A j \in DOMAIN video_tasks :
                  /\ video_tasks[j][1] = join(INPUT_DIR, VideoFiles[kept[j]])
                  /\ video_tasks[j][3] = answers[kept[j]]
            /\ Len(warned) = Len(missed)
            /\ \A j \in DOMAIN warned :
                  /\ warned[j].level = "warning"
                  /\ warned[j].item = VideoFiles[missed[j]]
            /\ \A j \in DOMAIN log : log[j].level # "error"
            /\ failed_files = <<>>
            /\ pc = "done" <=> kept = <<>>

\* C21 witness: three videos answered with Skip, a missing path and an
\* existing path: one task, carrying the path typed, and one warning.
C21_Witness ==
    /\ ManualRun
    /\ Len(VideoFiles) = 3
    /\ inputs.answers[1] = Typed("Skip")
    /\ ~SkipAnswered(inputs.answers[2])
    /\ ~exists(inputs.answers[2])
    /\ Len(video_tasks) = 1
    /\ video_tasks[1][1] = join(INPUT_DIR, VideoFiles[3])
    /\ video_tasks[1][3] = inputs.answers[3]
    /\ Len(SelectSeq(log, IsManualWarning)) = 1

\* the entry ends, letter case put aside, with an extension of the allow
\* list
EndsWithAllowed(f) ==
    /\ f # <<>>
    /\ f[Len(f)] \in {".mp4", ".avi", ".mov", ".mkv", ".m4v", ".MOV"}

\* C22: the eligible videos are exactly the entries whose lower-cased name
\* ends with .mp4, .avi, .mov, .mkv or .m4v, in listing order; an entry with
\* another extension never becomes a task; when no entry is eligible,
\* process_directory returns without a prompt and without a pool.
C22_ExtensionFilter ==
    LET eligible == SelectSeq(listing, EndsWithAllowed)
    IN  /\ VideoFiles = eligible
        /\ \A j \in DOMAIN video_tasks :
              /\ EndsWithAllowed(basename(video_tasks[j][1]))
              /\ basename(video_tasks[j][1]) \in Range(listing)
        /\ (script = "watermark" /\ pc = "enumerated") =>
              /\ Len(video_tasks) = Len(eligible)
              /\ \A j \in DOMAIN video_tasks :
                    video_tasks[j][1] = join(INPUT_DIR, eligible[j])
        /\ (eligible = <<>> /\ pc # "start") =>
              /\ pc = "done"
              /\ inputs = NoInputs
              /\ video_tasks = <<>>
              /\ futures = <<>>
              /\ Len(log) = 1
              /\ log[1].msg = "no_videos_found"
        /\ (eligible # <<>> /\ pc # "start" /\ script = "thumbnail") =>
              inputs.strategy # ""

\* C22 witness: a listing with an upper-case extension, an image and a name
\* that only contains .mp4: one task, for the upper-case entry.
C22_Witness ==
    /\ pc = "enumerated"
    /\ script = "watermark"
    /\ Range(listing) = {<<"a", ".MOV">>, <<"a", ".png">>, <<"a", ".mp4", ".txt">>}
    /\ Len(video_tasks) = 1
    /\ basename(video_tasks[1][1]) = <<"a", ".MOV">>

----------------------------------------------------------------------------
(* Claim about the write of the overlay operations (checked under SpecOverlay) *)

\* the asset paths the invocation was given
AssetPaths ==
    IF args.func = "add_thumbnail_to_video"
    THEN {args.thumbnail_path}
    ELSE {WATERMARK_PATH, WATERMARK_PATH_LAST_5SEC}

\* C23: an invocation that returns True has written once, to its own
\* output path; an invocation that fails when the source is opened or when
\* the asset is looked for has written nothing; no invocation writes to its
\* input path or to an asset path.
C23_WritesOnlyOutput ==
    OverlayReturned =>
        /\ ret.ok => ret.writes = {args.output_path}
        /\ (args.env.raise_at = "open" \/ ~args.env.asset_exists)
              => (~ret.ok /\ ret.writes = {})
        /\ ret.writes \subseteq {args.output_path}
        /\ args.input_path \notin ret.writes
        /\ ret.writes \cap AssetPaths = {}

\* C23 witness: a thumbnail invocation and its environment without fault:
\* True is returned and the output path is the one path written.
C23_Witness ==
    /\ IsThumbnailCall
    /\ args.env.asset_exists
    /\ args.env.raise_at = "none"
    /\ ret.ok
    /\ ret.writes = {args.output_path}
    /\ args.output_path # args.input_path

----------------------------------------------------------------------------
(* Claim about the progress of the logging lock (checked under LiveSpecLog) *)

\* C24: THREAD_LOCK is held only by a thread inside the logging call of
\* thread_safe_log, and is released when that call returns or raises; so
\* every thread that waits for the lock comes to hold it, and
\* process_directory returns.
C24_LockNeverBlocksBatch ==
    /\ [](\A t \in DOMAIN threads :
            /\ THREAD_LOCK = t => threads[t].at = "logging"
            /\ threads[t].at = "logging" => THREAD_LOCK = t)
    /\ [](THREAD_LOCK # Unlocked => THREAD_LOCK \in DOMAIN threads)
    /\ \A t \in LogWorkers \cup {MainThread} :
          (threads[t].at = "waiting") ~> (threads[t].at = "logging")
    /\ <>(threads[MainThread].at = "returned")

\* C24 witness: the logging call of one worker has raised, and another
\* worker holds the lock while the collection loop waits for it.
C24_Witness ==
    \E t, u \in LogWorkers :
        /\ t # u
        /\ threads[t].raised
        /\ THREAD_LOCK = u
        /\ threads[u].at = "logging"
        /\ threads[MainThread].at = "waiting"

----------------------------------------------------------------------------
(* Claim about an input that is gone when its task starts (checked under Spec) *)

\* the task of future i ran and did not find its input
InputGone(i) == Resolved(futures[i]) /\ ~futures[i].met.input_exists

\* C25: if the input path does not exist when process_single_video_threaded
\* starts, the task returns (False, input_file) without calling the overlay
\* operation and without writing; once collected it is in failed_files
\* once and is not counted as a success.
C25_VanishedInputFailsAtTaskStart ==
    \A i \in DOMAIN futures :
        InputGone(i) =>
            /\ ~futures[i].raised
            /\ futures[i].value = <<FALSE, video_tasks[i][1]>>
            /\ futures[i].calls = 0
            /\ futures[i].writes = {}
            /\ Count(failed_files, basename(video_tasks[i][1]))
                  = (IF futures[i].state = "collected" THEN 1 ELSE 0)
            /\ success_count
                  <= Cardinality({j \in DOMAIN futures : j # i
                                     /\ futures[j].state = "collected"})

\* C25 witness: a finished batch of two tasks; the input of one was gone,
\* the other succeeded.
C25_Witness ==
    /\ pc = "done"
    /\ Len(futures) = 2
    /\ \E i, j \in DOMAIN futures :
          /\ InputGone(i)
          /\ futures[i].state = "collected"
          /\ TaskSucceeded(j)
    /\ Len(failed_files) = 1
    /\ success_count = 1

----------------------------------------------------------------------------
(* Claim about the two modes of the watermark batch (checked under SpecModes) *)

\* the (input path, output path) pairs the pool called the operation with
ThreadedInvocations ==
    {<<video_tasks[i][1], video_tasks[i][2]>> :
        i \in {j \in DOMAIN futures : futures[j].calls > 0}}

\* the total of the summary line of process_directory
ThreadedTotal ==
    IF futures = <<>> THEN 0 ELSE log[Len(log)].item.total

NoDuplicate(seq) ==
    \A i, j \in DOMAIN seq : seq[i] = seq[j] => i = j

----------------------------------------------------------------------------
(* scheduler.py: the upload loop of main and upload_video.  A datetime is   *)
(* a number of minutes; what the operator types at "Schedule time" is       *)
(* nothing, a text that strptime refuses, or a text of the format that      *)
(* names a minute.                                                          *)

ScheduleInputs ==
    {[text |-> "empty", minute |-> 0], [text |-> "malformed", minute |-> 0]}
    \cup {[text |-> "wellformed", minute |-> m] : m \in 0..(MaxClock + 1)}

\* dt.strptime(schedule_str, '%Y-%m-%d %H:%M'): the datetime, or ValueError
strptime(schedule_str) ==
    IF schedule_str.text = "wellformed"
    THEN [raised |-> FALSE, value |-> schedule_str.minute]
    ELSE [raised |-> TRUE, value |-> 0]

\* publish_at.strftime('%Y-%m-%dT%H:%M:%SZ')
strftime(minute) == [minute |-> minute, second |-> 0, zone |-> "Z"]

PublishAtNone == [some |-> FALSE, minute |-> 0]

\* main: "publish_at = None; if schedule_str: try: ... except ValueError: ..."
ParsePublishAt(schedule_str, clock) ==
    IF schedule_str.text = "empty"
    THEN [publish_at |-> PublishAtNone, message |-> "none"]
    ELSE LET parsed == strptime(schedule_str)
         IN  IF parsed.raised
             THEN [publish_at |-> PublishAtNone,
                   message |-> "invalid_datetime_format"]
             ELSE IF parsed.value <= clock
             THEN [publish_at |-> PublishAtNone,
                   message |-> "schedule_time_must_be_in_the_future"]
             ELSE [publish_at |-> [some |-> TRUE, minute |-> parsed.value],
                   message |-> "none"]

NoBody == [built |-> FALSE, privacyStatus |-> "", publishAt |-> FALSE,
           publishAtText |-> strftime(0)]

\* upload_video: the 'status' part of the request body
upload_video(publish_at, clock) ==
    LET scheduled == publish_at.some /\ publish_at.minute > clock
    IN  [built |-> TRUE,
         privacyStatus |-> IF publish_at.some THEN "private" ELSE "public",
         publishAt |-> scheduled,
         publishAtText |-> IF scheduled THEN strftime(publish_at.minute)
                           ELSE strftime(0)]

uploadFrame == <<script, cpu_count, listing, fs, inputs, video_tasks, log,
                 futures, success_count, failed_files, fault_budget, args, ret, logVars>>

InitUpload ==
    /\ script = "upload"
    /\ cpu_count = 1
    /\ listing = <<>>
    /\ fs = {}
    /\ pc = "prompt"
    /\ inputs = NoInputs
    /\ video_tasks = <<>>
    /\ log = <<>>
    /\ futures = <<>>
    /\ success_count = 0
    /\ failed_files = <<>>
    /\ fault_budget = 0
    /\ args = <<>>
    /\ ret = "pending"
    /\ THREAD_LOCK = Unlocked
    /\ threads = <<>>
    /\ now = 0
    /\ \E n \in 1..MaxUploads :
          upload = [remaining |-> n,
                    schedule_str |-> [text |-> "empty", minute |-> 0],
                    checked_at |-> 0,
                    publish_at |-> PublishAtNone,
                    message |-> "none",
                    body |-> NoBody]

\* the prompts of one video are answered and the schedule time is checked
\* against dt.now()
ReadSchedule ==
    /\ pc = "prompt"
    /\ \E schedule_str \in ScheduleInputs :
          LET parsed == ParsePublishAt(schedule_str, now)
          IN  upload' = [remaining |-> upload.remaining,
                         schedule_str |-> schedule_str,
                         checked_at |-> now,
                         publish_at |-> parsed.publish_at,
                         message |-> parsed.message,
                         body |-> NoBody]
    /\ pc' = "call"
    /\ UNCHANGED <<uploadFrame, now>>

\* upload_video(youtube, video, title, desc, publish_at=publish_at)
CallUploadVideo ==
    /\ pc = "call"
    /\ upload' = [upload EXCEPT !.body = upload_video(upload.publish_at, now),
                                !.remaining = @ - 1]
    /\ pc' = "uploaded"
    /\ UNCHANGED <<uploadFrame, now>>

\* "for video in video_files": the next video
NextVideo ==
    /\ pc = "uploaded"
    /\ upload.remaining > 0
    /\ pc' = "prompt"
    /\ UNCHANGED <<uploadFrame, now, upload>>

\* time passes: while the operator types, between the check of main and
\* the call of upload_video, while a video is uploaded
ClockTick ==
    /\ now < MaxClock
    /\ now' = now + 1
    /\ UNCHANGED <<uploadFrame, pc, upload>>

NextUpload == ReadSchedule \/ CallUploadVideo \/ NextVideo \/ ClockTick

SpecUpload == InitUpload /\ [][NextUpload]_vars

\* C26 (refuted): the request body built by upload_video has privacyStatus
\* 'private' if and only if it carries a publishAt value, and a schedule
\* time that is malformed, or not in the future when main checks it, gives
\* a 'public' upload without publishAt.
C26_PrivateOnlyWithPublishAt ==
    upload.body.built =>
        /\ upload.body.privacyStatus = "private" <=> upload.body.publishAt
        /\ (\/ upload.schedule_str.text = "malformed"
            \/ /\ upload.schedule_str.text = "wellformed"
               /\ upload.schedule_str.minute <= upload.checked_at) =>
              /\ upload.body.privacyStatus = "public"
              /\ ~upload.body.publishAt

====
